---- MODULE Spec2Model ----
(***************************************************************************)
(* Model of lib/streamlit/server/server_util.py: the message guard         *)
(* (serialize_forward_msg) and the CORS origin validator                   *)
(* (is_url_from_allowed_origins).                                          *)
(***************************************************************************)
EXTENDS Integers, Sequences, FiniteSets, TLC

(***************************************************************************)
(* Bounds of the model.                                                    *)
(***************************************************************************)
\* delta ids range over 0..MaxId
MaxId == 2
\* payload sizes are taken within MaxDelta bytes of 0 and of each threshold
MaxDelta == 3
\* number of hostnames other than the three localhost aliases
MaxHosts == 2

(***************************************************************************)
(* Program constants.                                                      *)
(***************************************************************************)
\* MESSAGE_SIZE_LIMIT = 5 * 10e7: the float literal 10e7 is 10 * 10^7 = 10^8.
MESSAGE_SIZE_LIMIT == 5 * 100000000

\* The limit the comment on the same line documents: "# 50MB".
DocumentedLimit == 50000000

\* Python's None.  Hostnames never contain '<', so it equals no hostname.
None == "<None>"

(***************************************************************************)
(* State.                                                                  *)
(***************************************************************************)
VARIABLES
    \* ---- message guard ----
    msg,        \* the caller's ForwardMsg object (mutable, passed by reference)
    msg_in,     \* snapshot of msg as it was when the call was made
    msg_str,    \* the bytes serialize_forward_msg returned (<<>> before the call)
    effects,    \* the operations performed on msg during the call, in order
    gpc,        \* "call" before serialize_forward_msg runs, "returned" after
    \* ---- origin validator ----
    url,        \* the argument of is_url_from_allowed_origins
    config,     \* the configuration store: key -> [value, manual]
    internal_ip,\* what util.get_internal_ip yields when invoked
    external_ip,\* what util.get_external_ip yields when invoked
    calls,      \* the collaborator calls made during the call, in order
    result,     \* <<v>> once the call has returned v, <<>> before
    opc         \* "call" before is_url_from_allowed_origins runs, "returned" after

guardVars  == <<msg, msg_in, msg_str, effects, gpc>>
originVars == <<url, config, internal_ip, external_ip, calls, result, opc>>
vars == <<msg, msg_in, msg_str, effects, gpc,
          url, config, internal_ip, external_ip, calls, result, opc>>

(***************************************************************************)
(* ForwardMsg, its serialization and the exception marshalling.            *)
(***************************************************************************)
\* An element slot that holds nothing (the state Clear() leaves).
NoElement == [kind |-> "none", size |-> 0, type |-> "", message |-> ""]

\* An element holding `n` bytes of user data (a data frame, a chart, text).
DataElement(n) == [kind |-> "data", size |-> n, type |-> "", message |-> ""]

\* ForwardMsg with every field at its default: what msg.Clear() leaves.
ClearedMsg == [metadata |-> 0, delta |-> [id |-> 0, new_element |-> NoElement]]

\* msg.Clear()
Clear(m) == ClearedMsg

\* The Python exception object RuntimeError(text).
RuntimeError(text) == [type |-> "RuntimeError", text |-> text]

\* exception_proto.marshall(slot, e): fills the slot with the exception's type
\* name and its message text.
marshall(e) ==
    [kind |-> "exception", size |-> 0, type |-> e.type, message |-> e.text]

\* One length-delimited field of the wire format.
Chunk(tag, len, num, text) == [tag |-> tag, len |-> len, num |-> num, text |-> text]

\* The wire form of an element: nothing for an empty slot, the data bytes,
\* or the two strings of an exception, each with a 2-byte header.
SerializeElement(e) ==
    CASE e.kind = "none" -> <<>>
      [] e.kind = "data" -> <<Chunk("delta.new_element.data", e.size, 0, <<>>)>>
      [] e.kind = "exception" ->
            <<Chunk("delta.new_element.exception",
                    (2 + Len(e.type)) + (2 + Len(e.message)), 0,
                    <<e.type, e.message>>)>>

\* msg.SerializeToString(): the fields in field-number order; a scalar field
\* at its default value (metadata of no bytes, id 0) is not written.
SerializeToString(m) ==
    (IF m.metadata = 0 THEN <<>>
        ELSE <<Chunk("metadata", m.metadata, 0, <<>>)>>)
    \o (IF m.delta.id = 0 THEN <<>>
        ELSE <<Chunk("delta.id", 2, m.delta.id, <<>>)>>)
    \o SerializeElement(m.delta.new_element)

\* len(bytes)
RECURSIVE ByteLen(_)
ByteLen(bytes) ==
    IF bytes = <<>> THEN 0 ELSE Head(bytes).len + ByteLen(Tail(bytes))

\* ForwardMsg.ParseFromString(bytes): the message a client decodes.
RECURSIVE ParseInto(_, _)
ParseInto(m, bytes) ==
    IF bytes = <<>> THEN m
    ELSE LET c == Head(bytes)
             m2 == CASE c.tag = "metadata" -> [m EXCEPT !.metadata = c.len]
                     [] c.tag = "delta.id" -> [m EXCEPT !.delta.id = c.num]
                     [] c.tag = "delta.new_element.data" ->
                            [m EXCEPT !.delta.new_element = DataElement(c.len)]
                     [] c.tag = "delta.new_element.exception" ->
                            [m EXCEPT !.delta.new_element =
                                [kind |-> "exception", size |-> 0,
                                 type |-> c.text[1], message |-> c.text[2]]]
         IN ParseInto(m2, Tail(bytes))

ParseFromString(bytes) == ParseInto(ClearedMsg, bytes)

(***************************************************************************)
(* The message guard.                                                      *)
(***************************************************************************)
\* Variant of _convert_msg_to_exception_msg that does not put delta.id back
\* after Clear().
convert_without_restoring_id(m, e) ==
    LET cleared == Clear(m)
    IN [cleared EXCEPT !.delta.new_element = marshall(e)]

\* _convert_msg_to_exception_msg(msg, e): the message afterwards.
_convert_msg_to_exception_msg(m, e) ==
    LET delta_id == m.delta.id
        cleared  == Clear(m)
        with_id  == [cleared EXCEPT !.delta.id = delta_id]
    IN [with_id EXCEPT !.delta.new_element = marshall(e)]

\* The operations _convert_msg_to_exception_msg performs on msg, in order.
ConvertEffects == <<"Clear", "set delta.id", "marshall">>

\* Variant of the size test that also converts a message of exactly the limit.
TooLargeInclusive(bytes) == ByteLen(bytes) >= MESSAGE_SIZE_LIMIT

\* Whether serialize_forward_msg takes the oversize branch.
TooLarge(bytes) == ByteLen(bytes) > MESSAGE_SIZE_LIMIT

\* serialize_forward_msg(msg): the whole call.
serialize_forward_msg ==
    /\ gpc = "call"
    /\ LET first == SerializeToString(msg)
       IN IF TooLarge(first)
          THEN LET converted ==
                       _convert_msg_to_exception_msg(msg, RuntimeError("Data too large"))
               IN /\ msg' = converted
                  /\ msg_str' = SerializeToString(converted)
                  /\ effects' = <<"SerializeToString">> \o ConvertEffects
                                  \o <<"SerializeToString">>
          ELSE /\ msg' = msg
               /\ msg_str' = first
               /\ effects' = <<"SerializeToString">>
    /\ gpc' = "returned"
    /\ UNCHANGED <<msg_in, originVars>>

\* Payload sizes near 0, near the documented limit and near the coded limit.
PayloadSizes ==
    (0..MaxDelta)
    \cup {DocumentedLimit + d : d \in (0 - MaxDelta)..MaxDelta}
    \cup {MESSAGE_SIZE_LIMIT + d : d \in (0 - MaxDelta)..MaxDelta}

\* The messages a caller passes.
Messages ==
    {[metadata |-> md, delta |-> [id |-> i, new_element |-> e]] :
        md \in {0, 1}, i \in 0..MaxId,
        e \in {DataElement(n) : n \in PayloadSizes}
              \cup {NoElement, marshall(RuntimeError("boom"))}}

(***************************************************************************)
(* URLs, hostname extraction, the configuration store.                     *)
(***************************************************************************)
\* The hostnames the validator always allows.
LocalHosts == {"localhost", "0.0.0.0", "127.0.0.1"}

\* Hostnames other than the localhost aliases; the first MaxHosts are used.
HostNames == <<"my-host", "evil.example.com", "random-host.test", "10.0.0.7">>
OtherHosts == {HostNames[i] : i \in 1..MaxHosts}
Hosts == LocalHosts \cup OtherHosts

\* A URL is the sequence of its lexical parts: an optional scheme and "://",
\* an optional host, an optional ":" and port, an optional path.
PathTokens == {"/path"}

\* The tokens of `u` from position `i` on.
SubSeqFrom(u, i) == SubSeq(u, i, Len(u))

\* util.get_hostname(url): a url with no "://" gets the scheme "http://" put
\* in front; the host is what follows "://" up to the port or the path.  A url
\* with no host at all has no hostname (None); one that has a port but no
\* host has the empty hostname.
get_hostname(u) ==
    LET full == IF \E i \in 1..Len(u) : u[i] = "://"
                THEN u ELSE <<"http", "://">> \o u
        sep == CHOOSE i \in 1..Len(full) : full[i] = "://"
        rest == SubSeqFrom(full, sep + 1)
    IN IF rest = <<>> \/ rest[1] \in PathTokens THEN None
       ELSE IF rest[1] = ":" THEN ""
       ELSE rest[1]

\* The urls a request's Origin header carries: bare hosts, full urls, urls
\* with a port, and three malformed urls with no host.
Urls ==
    {<<h>> : h \in Hosts}
    \cup {<<"http", "://", h, "/path">> : h \in Hosts}
    \cup {<<"https", "://", h, ":", "8501">> : h \in Hosts}
    \cup {<<>>, <<"http", "://", "/path">>, <<"http", "://", ":", "8501">>}

\* Values of browser.serverAddress: a host, a port with no host, or nothing.
ServerAddresses == {<<HostNames[1]>>, <<":", "8501">>, <<>>}

\* Values of s3.url: a url of a host, or a url with no host.
S3Urls == {<<"https", "://", HostNames[2], "/path">>, <<"https", "://">>}

\* Values of s3.bucket: unset (None), empty, or a bucket host name.
Buckets == OtherHosts \cup {None, ""}

\* What the IP lookups yield: an address, or None when the lookup fails.
IpResults == OtherHosts \cup {None}

\* The configuration stores: each option has a value and the flag
\* config.is_manually_set reports for it.
Configs ==
    {[k \in {"server.enableCORS", "browser.serverAddress", "s3.url", "s3.bucket"} |->
        CASE k = "server.enableCORS" -> [value |-> cors, manual |-> FALSE]
          [] k = "browser.serverAddress" -> [value |-> sa, manual |-> sam]
          [] k = "s3.url" -> [value |-> su, manual |-> sum]
          [] k = "s3.bucket" -> [value |-> b, manual |-> b # None]] :
        cors \in BOOLEAN, sa \in ServerAddresses, sam \in BOOLEAN,
        su \in S3Urls, sum \in BOOLEAN, b \in Buckets}

\* config.get_option(key)
get_option(key) == config[key].value

\* config.is_manually_set(key)
is_manually_set(key) == config[key].manual

\* One recorded collaborator call.
Call(fn, arg) == [fn |-> fn, arg |-> arg]

(***************************************************************************)
(* The origin validator.                                                   *)
(***************************************************************************)
\* The lazy candidates, by the names they have in the source.
Producers == {"_get_server_address_if_manually_set",
              "_get_s3_url_host_if_manually_set",
              "util.get_internal_ip",
              "util.get_external_ip",
              "lambda: config.get_option('s3.bucket')"}

\* util.is_function(allowed_domain)
is_function(d) == d \in Producers

\* Variant of the candidate list with the literal 127.0.0.1 left out.
allowed_domains_without_loopback ==
    <<"localhost", "0.0.0.0",
      "_get_server_address_if_manually_set",
      "_get_s3_url_host_if_manually_set",
      "util.get_internal_ip",
      "util.get_external_ip",
      "lambda: config.get_option('s3.bucket')">>

\* The list is_url_from_allowed_origins builds.
allowed_domains ==
    <<"localhost", "0.0.0.0", "127.0.0.1",
      "_get_server_address_if_manually_set",
      "_get_s3_url_host_if_manually_set",
      "util.get_internal_ip",
      "util.get_external_ip",
      "lambda: config.get_option('s3.bucket')">>

\* Variant of _get_server_address_if_manually_set that reads s3.url once the
\* server address is found manually set.
server_address_reading_s3_url ==
    IF is_manually_set("browser.serverAddress")
    THEN [value |-> get_hostname(get_option("s3.url")),
          calls |-> <<Call("config.is_manually_set", "browser.serverAddress"),
                      Call("config.get_option", "s3.url"),
                      Call("util.get_hostname", "s3.url")>>]
    ELSE [value |-> None,
          calls |-> <<Call("config.is_manually_set", "browser.serverAddress")>>]

\* _get_server_address_if_manually_set(): the value returned and the calls made.
_get_server_address_if_manually_set ==
    IF is_manually_set("browser.serverAddress")
    THEN [value |-> get_hostname(get_option("browser.serverAddress")),
          calls |-> <<Call("config.is_manually_set", "browser.serverAddress"),
                      Call("config.get_option", "browser.serverAddress"),
                      Call("util.get_hostname", "browser.serverAddress")>>]
    ELSE [value |-> None,
          calls |-> <<Call("config.is_manually_set", "browser.serverAddress")>>]

\* Variant of _get_s3_url_host_if_manually_set without the is_manually_set test.
s3_url_host_ungated ==
    [value |-> get_hostname(get_option("s3.url")),
     calls |-> <<Call("config.get_option", "s3.url"),
                 Call("util.get_hostname", "s3.url")>>]

\* _get_s3_url_host_if_manually_set(): the value returned and the calls made.
_get_s3_url_host_if_manually_set ==
    IF is_manually_set("s3.url")
    THEN [value |-> get_hostname(get_option("s3.url")),
          calls |-> <<Call("config.is_manually_set", "s3.url"),
                      Call("config.get_option", "s3.url"),
                      Call("util.get_hostname", "s3.url")>>]
    ELSE [value |-> None,
          calls |-> <<Call("config.is_manually_set", "s3.url")>>]

\* allowed_domain(): invoking the lazy candidate `d`.
Invoke(d) ==
    LET r == CASE d = "_get_server_address_if_manually_set" ->
                      _get_server_address_if_manually_set
               [] d = "_get_s3_url_host_if_manually_set" ->
                      _get_s3_url_host_if_manually_set
               [] d = "util.get_internal_ip" ->
                      [value |-> internal_ip, calls |-> <<>>]
               [] d = "util.get_external_ip" ->
                      [value |-> external_ip, calls |-> <<>>]
               [] d = "lambda: config.get_option('s3.bucket')" ->
                      [value |-> get_option("s3.bucket"),
                       calls |-> <<Call("config.get_option", "s3.bucket")>>]
    IN [value |-> r.value, calls |-> <<Call("invoke", d)>> \o r.calls]

\* One candidate of the list resolved to a value: a literal is itself, a
\* lazy candidate is invoked.
Resolve(d) ==
    IF is_function(d) THEN Invoke(d) ELSE [value |-> d, calls |-> <<>>]

\* Variant of the loop that gives up (returns False) at an absent candidate
\* instead of going on to the next one.
RECURSIVE LoopStoppingAtNone(_, _, _, _)
LoopStoppingAtNone(domains, i, hostname, log) ==
    IF i > Len(domains) THEN [result |-> FALSE, calls |-> log]
    ELSE LET r == Resolve(domains[i])
         IN IF r.value = None
            THEN [result |-> FALSE, calls |-> log \o r.calls]
            ELSE IF hostname = r.value
                 THEN [result |-> TRUE, calls |-> log \o r.calls]
                 ELSE LoopStoppingAtNone(domains, i + 1, hostname, log \o r.calls)

\* Variant of the loop that resolves every candidate before it answers.
RECURSIVE LoopResolvingAll(_, _, _, _)
LoopResolvingAll(domains, i, hostname, log) ==
    IF i > Len(domains) THEN [result |-> FALSE, calls |-> log]
    ELSE LET r == Resolve(domains[i])
             rest == LoopResolvingAll(domains, i + 1, hostname, log \o r.calls)
         IN [result |-> (r.value # None /\ hostname = r.value) \/ rest.result,
             calls |-> rest.calls]

\* The for loop over `domains` from position i: the value returned and the
\* calls made, `log` being the calls made so far.
RECURSIVE Loop(_, _, _, _)
Loop(domains, i, hostname, log) ==
    IF i > Len(domains) THEN [result |-> FALSE, calls |-> log]
    ELSE LET r == Resolve(domains[i])
         IN IF r.value = None
            THEN Loop(domains, i + 1, hostname, log \o r.calls)
            ELSE IF hostname = r.value
                 THEN [result |-> TRUE, calls |-> log \o r.calls]
                 ELSE Loop(domains, i + 1, hostname, log \o r.calls)

\* Variant of the body that never looks at server.enableCORS.
CheckOriginIgnoringCors(u, domains) ==
    Loop(domains, 1, get_hostname(u), <<Call("util.get_hostname", "url")>>)

\* The body of is_url_from_allowed_origins(u) for the candidate list `domains`.
CheckOrigin(u, domains) ==
    IF ~get_option("server.enableCORS")
    THEN [result |-> TRUE,
          calls |-> <<Call("config.get_option", "server.enableCORS")>>]
    ELSE Loop(domains, 1, get_hostname(u),
              <<Call("config.get_option", "server.enableCORS"),
                Call("util.get_hostname", "url")>>)

\* is_url_from_allowed_origins(url): the whole call.
is_url_from_allowed_origins ==
    /\ opc = "call"
    /\ LET r == CheckOrigin(url, allowed_domains)
       IN /\ result' = <<r.result>>
          /\ calls' = r.calls
    /\ opc' = "returned"
    /\ UNCHANGED <<url, config, internal_ip, external_ip, guardVars>>

(***************************************************************************)
(* Specifications.                                                         *)
(***************************************************************************)
\* The guard before a call, on any message.
InitGuard ==
    /\ msg \in Messages
    /\ msg_in = msg
    /\ msg_str = <<>>
    /\ effects = <<>>
    /\ gpc = "call"

\* The guard not in use.
IdleGuard ==
    /\ msg = ClearedMsg
    /\ msg_in = ClearedMsg
    /\ msg_str = <<>>
    /\ effects = <<>>
    /\ gpc = "idle"

\* The validator before a call, on any url, configuration and network.
InitOrigin ==
    /\ url \in Urls
    /\ config \in Configs
    /\ internal_ip \in IpResults
    /\ external_ip \in IpResults
    /\ calls = <<>>
    /\ result = <<>>
    /\ opc = "call"

\* The configuration store with nothing set by the user.
DefaultConfig ==
    [k \in {"server.enableCORS", "browser.serverAddress", "s3.url", "s3.bucket"} |->
        CASE k = "server.enableCORS" -> [value |-> TRUE, manual |-> FALSE]
          [] k = "browser.serverAddress" -> [value |-> <<HostNames[1]>>, manual |-> FALSE]
          [] k = "s3.url" -> [value |-> <<"https", "://">>, manual |-> FALSE]
          [] k = "s3.bucket" -> [value |-> None, manual |-> FALSE]]

\* The validator not in use.
IdleOrigin ==
    /\ url = <<>>
    /\ config = DefaultConfig
    /\ internal_ip = None
    /\ external_ip = None
    /\ calls = <<>>
    /\ result = <<>>
    /\ opc = "idle"

\* A caller about to serialize a message; the validator is not in use.
GuardInit == InitGuard /\ IdleOrigin

\* A request about to be validated; the guard is not in use.
OriginInit == InitOrigin /\ IdleGuard

GuardNext == serialize_forward_msg

OriginNext == is_url_from_allowed_origins

SpecGuard == GuardInit /\ [][GuardNext]_vars

SpecOrigin == OriginInit /\ [][OriginNext]_vars

(***************************************************************************)
(* Vocabulary of the properties.                                           *)
(***************************************************************************)
\* The length of the serialization of the message as the caller passed it.
OriginalLen == ByteLen(SerializeToString(msg_in))

\* serialize_forward_msg has returned.
GuardReturned == gpc = "returned"

\* The guard converted the message (it cleared it).
Converted == \E i \in 1..Len(effects) : effects[i] = "Clear"

\* The message that carries `id` and, as its only other content, the
\* exception element of RuntimeError("Data too large").
DataTooLargeMsg(id) ==
    [metadata |-> 0,
     delta |-> [id |-> id,
                new_element |-> [kind |-> "exception", size |-> 0,
                                 type |-> "RuntimeError",
                                 message |-> "Data too large"]]]

\* is_url_from_allowed_origins has returned v.
OriginReturned(v) == opc = "returned" /\ result = <<v>>

\* server.enableCORS as the call finds it.
CorsEnabled == config["server.enableCORS"].value

\* The hostname of the url under validation.
UrlHostname == get_hostname(url)

\* The lazy producers in the order of the candidate list.
ProducerOrder ==
    <<"_get_server_address_if_manually_set",
      "_get_s3_url_host_if_manually_set",
      "util.get_internal_ip",
      "util.get_external_ip",
      "lambda: config.get_option('s3.bucket')">>

\* The producers invoked during the call, in the order of their invocation.
RECURSIVE InvokedIn(_)
InvokedIn(log) ==
    IF log = <<>> THEN <<>>
    ELSE IF Head(log).fn = "invoke"
         THEN <<Head(log).arg>> \o InvokedIn(Tail(log))
         ELSE InvokedIn(Tail(log))

Invoked == InvokedIn(calls)

\* The call `c` was made.
Made(c) == \E i \in 1..Len(calls) : calls[i] = c

\* What each candidate is worth: a literal is itself, a producer is what it
\* yields when invoked.
ValueOf(d) ==
    CASE d \in LocalHosts -> d
      [] d = "_get_server_address_if_manually_set" ->
            IF config["browser.serverAddress"].manual
            THEN get_hostname(config["browser.serverAddress"].value) ELSE None
      [] d = "_get_s3_url_host_if_manually_set" ->
            IF config["s3.url"].manual
            THEN get_hostname(config["s3.url"].value) ELSE None
      [] d = "util.get_internal_ip" -> internal_ip
      [] d = "util.get_external_ip" -> external_ip
      [] d = "lambda: config.get_option('s3.bucket')" -> config["s3.bucket"].value

\* The candidates in the order the claims give them.
CandidateOrder == <<"localhost", "0.0.0.0", "127.0.0.1">> \o ProducerOrder

\* The non-absent candidate values.
CandidateValues ==
    {ValueOf(CandidateOrder[i]) : i \in 1..Len(CandidateOrder)} \ {None}

\* The candidate list rearranged by the permutation p of its positions.
Rearranged(p) == [i \in 1..Len(allowed_domains) |-> allowed_domains[p[i]]]

\* Rearrangements of the candidate list: every exchange of two candidates,
\* every rotation of the list, and the list reversed.
Rearrangements ==
    LET n == Len(allowed_domains)
    IN {[i \in 1..n |-> IF i = a THEN b ELSE IF i = b THEN a ELSE i] :
            a \in 1..n, b \in 1..n}
       \cup {[i \in 1..n |-> ((i + k - 1) % n) + 1] : k \in 0..(n - 1)}
       \cup {[i \in 1..n |-> n + 1 - i]}

(***************************************************************************)
(* Properties of the message guard (specification SpecGuard).              *)
(***************************************************************************)
\* C1: a message whose serialized length is at most MESSAGE_SIZE_LIMIT is
\* returned as the bytes of a direct SerializeToString() call and is left
\* unchanged: the only operation performed on it is that serialization.
C1_SmallMessageUntouched ==
    (GuardReturned /\ OriginalLen <= MESSAGE_SIZE_LIMIT) =>
        /\ msg_str = SerializeToString(msg_in)
        /\ msg = msg_in
        /\ effects = <<"SerializeToString">>

\* C1 witness: a call has returned on a message of exactly the limit's length.
C1_Witness ==
    /\ GuardReturned
    /\ OriginalLen = MESSAGE_SIZE_LIMIT
    /\ msg_in.delta.id # 0
    /\ msg = msg_in

\* C2: a message longer than the limit comes back as bytes no longer than
\* the original serialization, which are the serialization of, and decode
\* to, the message carrying the original delta.id and only the exception
\* element of RuntimeError("Data too large").
C2_OversizeBecomesException ==
    (GuardReturned /\ OriginalLen > MESSAGE_SIZE_LIMIT) =>
        /\ ByteLen(msg_str) <= OriginalLen
        /\ msg_str = SerializeToString(DataTooLargeMsg(msg_in.delta.id))
        /\ ParseFromString(msg_str) = DataTooLargeMsg(msg_in.delta.id)
        /\ msg = DataTooLargeMsg(msg_in.delta.id)

\* C2 witness: a call has returned on an oversize message that had a
\* non-default id and metadata.
C2_Witness ==
    /\ GuardReturned
    /\ OriginalLen > MESSAGE_SIZE_LIMIT
    /\ msg_in.delta.id = MaxId
    /\ msg_in.metadata # 0
    /\ ParseFromString(msg_str).delta.id = MaxId

\* C3: the threshold is 50,000,000 bytes: a message is converted exactly
\* when its serialized length exceeds 50,000,000.
C3_ThresholdIs50MB ==
    GuardReturned => (Converted <=> OriginalLen > DocumentedLimit)

(***************************************************************************)
(* Properties of the origin validator (specification SpecOrigin).          *)
(***************************************************************************)
\* C4: with server.enableCORS false every url is allowed, and the only
\* collaborator call made is the read of that option: no hostname is
\* extracted and no producer is invoked.
C4_CorsDisabledAllowsAll ==
    (opc = "returned" /\ ~CorsEnabled) =>
        /\ result = <<TRUE>>
        /\ calls = <<Call("config.get_option", "server.enableCORS")>>

\* C4 witness: with CORS disabled, a url of an unrelated host that no
\* candidate equals has been allowed.
C4_Witness ==
    /\ OriginReturned(TRUE)
    /\ ~CorsEnabled
    /\ UrlHostname \in OtherHosts
    /\ UrlHostname \notin CandidateValues

\* C5: a url whose hostname is localhost, 0.0.0.0 or 127.0.0.1 is allowed,
\* whatever server.enableCORS, the other options and the IP lookups are.
C5_LocalhostAllowed ==
    (opc = "returned" /\ UrlHostname \in {"localhost", "0.0.0.0", "127.0.0.1"}) =>
        result = <<TRUE>>

\* C5 witness: with CORS enabled, a url of 127.0.0.1 has been allowed.
C5_Witness ==
    /\ OriginReturned(TRUE)
    /\ CorsEnabled
    /\ UrlHostname = "127.0.0.1"

\* C6: with CORS enabled the call returns True exactly when the hostname
\* equals a non-absent candidate value, False otherwise, and the candidate
\* list taken in any other order gives the same result.
C6_MatchIffCandidate ==
    (opc = "returned" /\ CorsEnabled) =>
        /\ result = <<UrlHostname \in CandidateValues>>
        /\ \A p \in Rearrangements :
               <<CheckOrigin(url, Rearranged(p)).result>> = result

\* C6 witness: with CORS enabled, a url whose host no candidate equals has
\* been refused while some producers yielded other hosts.
C6_Witness ==
    /\ OriginReturned(FALSE)
    /\ CorsEnabled
    /\ UrlHostname \in OtherHosts
    /\ internal_ip \in OtherHosts
    /\ config["s3.bucket"].value \in OtherHosts

\* C7: with CORS enabled and browser.serverAddress manually set to a value
\* of hostname H, a url of hostname H is allowed, and neither IP lookup is
\* invoked.
C7_ManualServerAddressAllowed ==
    (/\ opc = "returned"
     /\ CorsEnabled
     /\ config["browser.serverAddress"].manual
     /\ get_hostname(config["browser.serverAddress"].value) # None
     /\ UrlHostname = get_hostname(config["browser.serverAddress"].value)) =>
        /\ result = <<TRUE>>
        /\ ~Made(Call("invoke", "util.get_internal_ip"))
        /\ ~Made(Call("invoke", "util.get_external_ip"))

\* C7 witness: the server address my-host is set, both IP lookups would
\* yield nothing, and a url of my-host has been allowed.
C7_Witness ==
    /\ OriginReturned(TRUE)
    /\ CorsEnabled
    /\ config["browser.serverAddress"].manual
    /\ UrlHostname = "my-host"
    /\ get_hostname(config["browser.serverAddress"].value) = "my-host"
    /\ internal_ip = None
    /\ external_ip = None
    /\ config["s3.bucket"].value = None
    /\ ~config["s3.url"].manual

\* C8: the producers invoked are an initial part of the list order (so in
\* order and at most once each), and a producer is invoked only if no
\* candidate before it equals the hostname.
C8_LazyInOrderShortCircuit ==
    opc = "returned" =>
        /\ Len(Invoked) <= Len(ProducerOrder)
        /\ \A j \in 1..Len(Invoked) :
              /\ Invoked[j] = ProducerOrder[j]
              /\ \A k \in 1..(3 + j - 1) :
                    \/ ValueOf(CandidateOrder[k]) = None
                    \/ ValueOf(CandidateOrder[k]) # UrlHostname

\* C8 witness: the internal IP matched, so exactly the first three producers
\* were invoked although the external IP would have matched too.
C8_Witness ==
    /\ OriginReturned(TRUE)
    /\ CorsEnabled
    /\ internal_ip = UrlHostname
    /\ external_ip = UrlHostname
    /\ Invoked = SubSeq(ProducerOrder, 1, 3)

\* C9: with CORS enabled, a url whose hostname is empty or absent is
\* refused, whatever the configuration and the producers yield.
C9_MalformedUrlRefused ==
    (opc = "returned" /\ CorsEnabled /\ UrlHostname \in {None, ""}) =>
        result = <<FALSE>>

\* C10: browser.serverAddress and s3.url are read, and their hostnames
\* extracted, only when config.is_manually_set reports true for them; an
\* allowed origin is a localhost alias, an IP lookup's result, the bucket,
\* or the hostname of one of the two options that is manually set.
C10_GatedOnManualSetting ==
    (opc = "returned" /\ CorsEnabled) =>
        /\ \A k \in {"browser.serverAddress", "s3.url"} :
              ~config[k].manual =>
                  /\ ~Made(Call("config.get_option", k))
                  /\ ~Made(Call("util.get_hostname", k))
        /\ result = <<TRUE>> =>
              \/ UrlHostname \in {"localhost", "0.0.0.0", "127.0.0.1"}
              \/ UrlHostname \in
                    {internal_ip, external_ip, config["s3.bucket"].value} \ {None}
              \/ \E k \in {"browser.serverAddress", "s3.url"} :
                    config[k].manual /\ UrlHostname = get_hostname(config[k].value)

\* C10 witness: the url's host is the value of browser.serverAddress, which
\* was not manually set, no more than s3.url, and the url has been refused.
C10_Witness ==
    /\ OriginReturned(FALSE)
    /\ CorsEnabled
    /\ ~config["browser.serverAddress"].manual
    /\ ~config["s3.url"].manual
    /\ UrlHostname = get_hostname(config["browser.serverAddress"].value)
    /\ get_hostname(config["s3.url"].value) \in OtherHosts
    /\ Made(Call("config.is_manually_set", "browser.serverAddress"))
    /\ Made(Call("config.is_manually_set", "s3.url"))

====
